---- MODULE Spec2Model ----
(***************************************************************************)
(* Lead workflow of the MERGE AI dashboard.                                *)
(*                                                                         *)
(* The Leads page (React) is modelled from its source: its component       *)
(* state, its react-query mutations, the auto-confirm effect and the       *)
(* delayed mark-confirmed timer.  The REST backend and the two agents are  *)
(* not part of the source tree; they are modelled from the lead lifecycle  *)
(* contract (state table, side effects, concurrency notes).                *)
(***************************************************************************)
EXTENDS Integers, Sequences, FiniteSets, TLC

(* ---------------------------------------------------------------- bounds *)
MaxLeads == 1

MaxInflight == 2

MaxCallLogs == 2

MaxEntryLogs == 3

MaxTimers == 1

MaxOther == 1

MaxMenuOpens == 1

MaxEdits == 2

MaxFailures == 2
\* edits of the call-attempt fields of the Settings page
MaxSettingEdits == 2
\* clicks on Save Call Settings
MaxSaves == 2
\* openings of an action menu in a run about the menu itself
MaxReopens == 2
\* largest number of Leads counted in a statistics record
MaxStatLeads == 4
\* clicks on the header's agent toggle
MaxToggles == 7

(* ------------------------------------------------------- status vocabulary *)
\* variant: the table offers a key outside the lifecycle's vocabulary
statusLabels_withArchived ==
  { "pending", "calling", "confirmed", "call_failed", "not_interested",
    "entry_in_progress", "entered", "entry_failed", "no_answer",
    "callback_requested", "archived" }

\* keys of the statusLabels table: the options of the status-update Select
statusLabels ==
  { "pending", "calling", "confirmed", "call_failed", "not_interested",
    "entry_in_progress", "entered", "entry_failed", "no_answer",
    "callback_requested" }

\* terminal states of the lifecycle table
Terminal == { "entered", "not_interested" }

\* outcomes of a call that did not succeed
CallFailureOutcomes == { "call_failed", "no_answer", "callback_requested" }

LeadIds == 1..MaxLeads

\* most Leads the store holds in a run
StoreCap == MaxLeads + 1

VARIABLES
  dbLeads,                \* backend: id -> lead row
  callLogs,               \* backend: sequence of CallLog rows
  dataEntryLogs,          \* backend: sequence of DataEntryLog rows
  leads,                  \* Leads page: data of the 'leads' query
  selectedLead,           \* Leads page: useState(null)
  actionMenuAnchor,       \* Leads page: useState(null)
  statusUpdateDialogOpen, \* Leads page: useState(false)
  selectedStatus,         \* Leads page: useState('')
  selectedFile,           \* Leads page: useState(null)
  uploadDialogOpen,       \* Leads page: useState(false)
  addDialogOpen,          \* Leads page: useState(false)
  newLead,                \* Leads page: useState({first_name: '', ...})
  inflight,               \* requests sent and not yet settled on the client
  timers,                 \* pending setTimeout callbacks, per lead id
  otherSent,              \* number of requests issued by a second client
  menuOpens,              \* number of times the operator opened an action menu
  edits,                  \* number of edits of the Add Lead form
  trail,                  \* per Lead: 1 once confirmed, 2 once in entry after that
  failures,               \* requests of the page that have failed so far
  errorToasts,            \* toast.error notifications shown so far
  scenario,               \* the operator's plan in a retry run, and where it started
  callSettings,           \* Settings page: useState({day1: 5, ...})
  loading,                \* Settings page: useState(false)
  snackbar,               \* Settings page: useState({open: false, ...})
  settingsReqs,           \* Settings page: requests awaited by its handlers
  serverSettings,         \* backend: the stored call-attempt caps
  settingsMounted,        \* Settings page: the mount effect has run
  settingEdits,           \* number of edits of the call-attempt fields
  settingsSaves,          \* number of clicks on Save Call Settings
  agentStatus,            \* Layout: data of the 'agentStatus' query
  agentsRunning,          \* backend: the agents are running
  agentReqs,              \* Layout: start / stop requests not yet settled
  toggles,                \* number of clicks on the agent toggle
  leadsStale,             \* Leads page: the 'leads' query is invalidated
  dashboardStats,         \* Dashboard: data of the 'dashboardStats' query
  progress                \* Dashboard: the values of the four progress bars

vars == << dbLeads, callLogs, dataEntryLogs, leads, selectedLead,
           actionMenuAnchor, statusUpdateDialogOpen, selectedStatus,
           selectedFile, uploadDialogOpen, addDialogOpen, newLead,
           inflight, timers, otherSent, menuOpens, edits, trail,
           failures, errorToasts, scenario, callSettings, loading, snackbar,
           settingsReqs, serverSettings, settingsMounted, settingEdits,
           settingsSaves, agentStatus, agentsRunning, agentReqs, toggles,
           leadsStale, dashboardStats, progress >>

backendVars == << dbLeads, callLogs, dataEntryLogs >>

menuVars == << selectedLead, actionMenuAnchor, statusUpdateDialogOpen,
               selectedStatus >>

createVars == << selectedFile, uploadDialogOpen, addDialogOpen, newLead, edits >>

pageVars == << leads, menuVars, createVars >>

budgetVars == << otherSent, menuOpens >>

errorVars == << failures, errorToasts >>

\* state outside the lead workflow, the override and the creation flows
laterVars == << errorVars, scenario, callSettings, loading, snackbar,
               settingsReqs, serverSettings, settingsMounted, settingEdits,
               settingsSaves, agentStatus, agentsRunning, agentReqs, toggles,
               leadsStale, dashboardStats, progress >>

dashboardVars == << dashboardStats, progress >>

layoutVars == << agentStatus, agentsRunning, agentReqs, toggles >>

\* the Leads page, its requests and the backend's Lead tables
leadsPageVars == << backendVars, pageVars, inflight, timers, budgetVars, trail,
                   errorVars, scenario >>

settingsVars == << callSettings, loading, snackbar, settingsReqs,
                  serverSettings, settingsMounted, settingEdits, settingsSaves >>

(* ------------------------------------------------------------ lead rows *)
\* a Lead as created by import or manual add
NewLeadRow ==
  [ status |-> "pending", tcpa_opt_in |-> FALSE, call_completed_at |-> FALSE,
    call_successful |-> FALSE, status_updated_after_call |-> FALSE ]

\* JavaScript null / undefined
Null == [ null |-> TRUE ]

IsNull(x) == x = Null

\* the row of lead i as GET /leads/ returns it (the fields the page reads)
LeadView(i) ==
  [ id |-> i, status |-> dbLeads[i].status,
    call_completed_at |-> dbLeads[i].call_completed_at,
    call_successful |-> dbLeads[i].call_successful,
    status_updated_after_call |-> dbLeads[i].status_updated_after_call ]

\* of the row kept in selectedLead the page reads .id and .status only
RowRead(row) == [ id |-> row.id, status |-> row.status ]

\* the 'leads' query before its first response: data is undefined
Undefined == [ loaded |-> FALSE, rows |-> << >> ]

LeadsResponse ==
  [ loaded |-> TRUE, rows |-> [ i \in DOMAIN dbLeads |-> LeadView(i) ] ]

(* -------------------------------------------------------------- requests *)
\* request bodies: none, the newLead object, or the chosen file
NoData == [ none |-> TRUE ]

\* one HTTP request of a mutation, from mutate() to its onSuccess / onError
Req(op, id, status, data, origin) ==
  [ op |-> op, id |-> id, status |-> status, data |-> data, origin |-> origin,
    phase |-> "sent", seen |-> "", ok |-> TRUE, call_successful |-> FALSE,
    latest |-> TRUE, k |-> 0 ]

SameCall(q, r) ==
  /\ q.op = r.op
  /\ q.id = r.id
  /\ q.status = r.status
  /\ q.data = r.data
  /\ q.origin = r.origin

FromPage(r) == r.origin # "other"

\* useMutation().mutate(): the observer now follows the new mutation
Mutate(set, r) ==
  LET k == CHOOSE n \in 0..Cardinality(set) :
             /\ \A q \in set : SameCall(q, r) => q.k # n
             /\ \A j \in 0..(n - 1) : \E q \in set : SameCall(q, r) /\ q.k = j
  IN  { IF q.op = r.op /\ FromPage(q) THEN [q EXCEPT !.latest = FALSE] ELSE q :
          q \in set } \cup { [r EXCEPT !.k = k] }

\* useMutation().isLoading
isLoading(op) ==
  \E q \in inflight : q.op = op /\ FromPage(q) /\ q.latest

CanSend == Cardinality(inflight) < MaxInflight

(* --------------------------------------------------- the Add Lead form *)
\* variant: the form object also carries a status
EmptyLead_withStatus ==
  [ first_name |-> "", last_name |-> "", email |-> "", phone |-> "",
    address |-> "", city |-> "", state |-> "", zip_code |-> "",
    status |-> "confirmed" ]

\* useState({first_name: '', ...}) and the reset of addLeadMutation.onSuccess
EmptyLead ==
  [ first_name |-> "", last_name |-> "", email |-> "", phone |-> "",
    address |-> "", city |-> "", state |-> "", zip_code |-> "" ]

\* what the operator types into a field
FieldValues == { "", "x" }

\* the files the operator can choose; rows is the number of data rows
Files == { [ name |-> "one.csv", rows |-> 1 ], [ name |-> "two.csv", rows |-> 2 ] }

(* --------------------------------------------------- the Settings page *)
Days == { "day1", "day2", "day3", "day4", "day5", "day6" }

\* the initial value of callSettings
DefaultCallSettings ==
  [ day1 |-> 5, day2 |-> 4, day3 |-> 2, day4 |-> 2, day5 |-> 2, day6 |-> 0 ]

\* the caps the backend has stored from an earlier save
StoredSettings ==
  [ day1 |-> 3, day2 |-> 3, day3 |-> 1, day4 |-> 1, day5 |-> 1, day6 |-> 1 ]

\* e.target.value of a number input, as a sequence of characters
Inputs ==
  { << >>, << "0" >>, << "3" >>, << "1", "1" >>, << "-", "1" >>,
    << "2", ".", "5" >> }

DigitChars == << "0", "1", "2", "3", "4", "5", "6", "7", "8", "9" >>

IsDigit(ch) == \E k \in DOMAIN DigitChars : DigitChars[k] = ch

DigitOf(ch) == (CHOOSE k \in DOMAIN DigitChars : DigitChars[k] = ch) - 1

\* the longest prefix of digits
RECURSIVE LeadingDigits(_)
LeadingDigits(str) ==
  IF str = << >> \/ ~IsDigit(Head(str))
    THEN << >>
    ELSE << Head(str) >> \o LeadingDigits(Tail(str))

\* the value of a sequence of digits in radix 10
RECURSIVE Decimal(_)
Decimal(ds) ==
  IF ds = << >>
    THEN 0
    ELSE 10 * Decimal(SubSeq(ds, 1, Len(ds) - 1)) + DigitOf(ds[Len(ds)])

NaN == [ nan |-> TRUE ]

Num(n) == [ nan |-> FALSE, n |-> n ]

\* parseInt(value, 10): an optional sign, then the leading digits; NaN when
\* there are none
ParseInt(str) ==
  LET signed == str # << >> /\ Head(str) \in { "-", "+" }
      body == IF signed THEN Tail(str) ELSE str
      ds == LeadingDigits(body)
  IN  IF ds = << >>
        THEN NaN
        ELSE Num(IF Head(str) = "-" THEN 0 - Decimal(ds) ELSE Decimal(ds))

\* x || 0
OrZero(x) == IF x.nan \/ x.n = 0 THEN 0 ELSE x.n

\* the object handleCallSettingChange passes to setCallSettings
handleCallSettingChange(settings, day, value) ==
  [ settings EXCEPT ![day] = OrZero(ParseInt(value)) ]

\* setState with an object: the state of the next render is that object
setState(state, next) == next

ClosedSnackbar == [ open |-> FALSE, message |-> "", severity |-> "success" ]

\* the Settings page before its mount effect has run
InitSettings ==
  /\ callSettings = DefaultCallSettings
  /\ loading = FALSE
  /\ snackbar = ClosedSnackbar
  /\ settingsReqs = {}
  /\ serverSettings = StoredSettings
  /\ settingsMounted = FALSE
  /\ settingEdits = 0
  /\ settingsSaves = 0

(* -------------------------------------------------------- the Dashboard *)
\* dashboardStats before the first response of the query
NoStats ==
  [ loaded |-> FALSE, total_leads |-> 0, pending_leads |-> 0,
    calling_leads |-> 0, confirmed_leads |-> 0, entered_leads |-> 0,
    success_rate |-> 0 ]

\* success rates the backend reports, in percent
SuccessRates == { 0, 50, 100 }

\* the records GET /stats/dashboard can return: every count is the number of
\* Leads in that status
StatsRecords ==
  { [ loaded |-> TRUE, total_leads |-> t, pending_leads |-> p,
      calling_leads |-> c, confirmed_leads |-> f, entered_leads |-> e,
      success_rate |-> sr ] :
      t \in 0..MaxStatLeads, p \in 0..MaxStatLeads, c \in 0..MaxStatLeads,
      f \in 0..MaxStatLeads, e \in 0..MaxStatLeads, sr \in SuccessRates }

\* the counts of a record add up to no more than its total
Counted(st) ==
  st.pending_leads + st.calling_leads + st.confirmed_leads + st.entered_leads
    <= st.total_leads

\* the number num / den
Ratio(num, den) == [ num |-> num, den |-> den ]

\* (a / b) * 100
Percent(a, b) == Ratio(a * 100, b)

\* value of the 'Pending -> Calling' bar
PendingToCalling(st) ==
  IF st.loaded /\ st.total_leads > 0
    THEN Percent(st.total_leads - st.pending_leads, st.total_leads)
    ELSE Ratio(0, 1)

\* value of the 'Confirmed -> Entry' bar
ConfirmedToEntry(st) ==
  IF st.loaded /\ st.confirmed_leads > 0
    THEN Percent(st.entered_leads, st.confirmed_leads)
    ELSE Ratio(0, 1)

\* value of the 'Overall Success' bar: success_rate || 0
OverallSuccess(st) ==
  IF st.loaded /\ st.success_rate # 0 THEN Ratio(st.success_rate, 1)
                                       ELSE Ratio(0, 1)

\* value of the 'Active Processing' bar
ActiveProcessing(st) ==
  IF st.loaded /\ st.total_leads > 0
    THEN Percent(st.calling_leads + st.confirmed_leads, st.total_leads)
    ELSE Ratio(0, 1)

\* the four LinearProgress values of a render
WorkflowProgress(st) ==
  [ pendingToCalling |-> PendingToCalling(st),
    confirmedToEntry |-> ConfirmedToEntry(st),
    overallSuccess |-> OverallSuccess(st),
    activeProcessing |-> ActiveProcessing(st) ]

\* the Dashboard before the first response
InitDashboard ==
  /\ dashboardStats = NoStats
  /\ progress = WorkflowProgress(NoStats)

(* ----------------------------------------------------------- the header *)
\* agentStatus before the first response of the query
NoAgentStatus == [ loaded |-> FALSE, agents_running |-> FALSE ]

\* the header before the first response, the agents stopped
InitLayout ==
  /\ agentStatus = NoAgentStatus
  /\ agentsRunning = FALSE
  /\ agentReqs = {}
  /\ toggles = 0

(* ------------------------------------------------------------------ Init *)
InitPage ==
  /\ InitSettings
  /\ InitLayout
  /\ InitDashboard
  /\ leadsStale = FALSE
  /\ leads = Undefined
  /\ selectedLead = Null
  /\ actionMenuAnchor = FALSE
  /\ statusUpdateDialogOpen = FALSE
  /\ selectedStatus = ""
  /\ selectedFile = Null
  /\ uploadDialogOpen = FALSE
  /\ addDialogOpen = FALSE
  /\ newLead = EmptyLead
  /\ inflight = {}
  /\ timers = [ i \in 1..StoreCap |-> 0 ]
  /\ otherSent = 0
  /\ menuOpens = 0
  /\ edits = 0
  /\ failures = 0
  /\ errorToasts = 0

\* runs outside the retry scenarios follow no plan
NoScenario == [ op |-> "none", lead |-> 0, calls |-> 0, entries |-> 0 ]

\* the dashboard opens on a store of freshly imported Leads
Init ==
  /\ scenario = NoScenario
  /\ dbLeads = [ i \in LeadIds |-> NewLeadRow ]
  /\ callLogs = << >>
  /\ dataEntryLogs = << >>
  /\ trail = [ i \in 1..StoreCap |-> 0 ]
  /\ InitPage

\* the dashboard opens on an empty store
InitCreate ==
  /\ scenario = NoScenario
  /\ dbLeads = << >>
  /\ callLogs = << >>
  /\ dataEntryLogs = << >>
  /\ trail = [ i \in 1..StoreCap |-> 0 ]
  /\ InitPage

(* ------------------------------------------------- Leads page: the query *)
\* the filter of the auto-confirm effect
leadsNeedingUpdate(rows) ==
  { i \in DOMAIN rows :
      /\ rows[i].status = "calling"
      /\ rows[i].call_completed_at
      /\ ~rows[i].status_updated_after_call }

\* its forEach: the Leads it sends mark-confirmed for
AutoConfirmTargets(rows) ==
  { i \in leadsNeedingUpdate(rows) : rows[i].call_successful }

RECURSIVE MutateAll(_, _, _)
MutateAll(set, ids, origin) ==
  IF ids = {} THEN set
  ELSE LET i == CHOOSE x \in ids : \A y \in ids : x <= y
       IN  MutateAll(Mutate(set, Req("mark-confirmed", i, "", NoData, origin)),
                     ids \ {i}, origin)

\* useEffect(..., [leads]): runs after a render in which leads changed
AutoConfirmEffect(data) ==
  IF data.loaded
    THEN MutateAll(inflight, AutoConfirmTargets(data.rows), "effect")
    ELSE inflight

\* a GET /leads/ of the 3 s poll (or of an invalidation) succeeds
LeadsQuerySuccess ==
  LET data == LeadsResponse IN
  /\ data # leads
  /\ Cardinality(inflight) + Cardinality(AutoConfirmTargets(data.rows))
       <= MaxInflight
  /\ leads' = data
  /\ inflight' = AutoConfirmEffect(data)
  /\ UNCHANGED << backendVars, menuVars, createVars, timers, budgetVars >>

(* ----------------------------------------------- Leads page: the handlers *)
\* Menu and Dialog are modal: nothing behind an open one can be clicked
NoModalOpen ==
  /\ ~actionMenuAnchor
  /\ ~statusUpdateDialogOpen
  /\ ~uploadDialogOpen
  /\ ~addDialogOpen

\* how often the operator opens an action menu in this run
MenuBudget == IF scenario.op = "menu" THEN MaxReopens ELSE MaxMenuOpens

handleActionClick(i) ==
  /\ NoModalOpen
  /\ leads.loaded
  /\ i \in DOMAIN leads.rows
  /\ menuOpens < MenuBudget
  /\ menuOpens' = menuOpens + 1
  /\ actionMenuAnchor' = TRUE
  /\ selectedLead' = RowRead(leads.rows[i])
  /\ UNCHANGED << backendVars, leads, statusUpdateDialogOpen, selectedStatus,
                  createVars, inflight, timers, otherSent >>

handleActionClose ==
  /\ actionMenuAnchor
  /\ actionMenuAnchor' = FALSE
  /\ selectedLead' = Null
  /\ UNCHANGED << backendVars, leads, statusUpdateDialogOpen, selectedStatus,
                  createVars, inflight, timers, budgetVars >>

\* a menu item: mutate(selectedLead.id), then handleActionClose()
MenuItemClick(op) ==
  /\ actionMenuAnchor
  /\ ~IsNull(selectedLead)
  /\ CanSend
  /\ inflight' = Mutate(inflight, Req(op, selectedLead.id, "", NoData, "operator"))
  /\ actionMenuAnchor' = FALSE
  /\ selectedLead' = Null
  /\ UNCHANGED << backendVars, leads, statusUpdateDialogOpen, selectedStatus,
                  createVars, timers, budgetVars >>

MakeCallDisabled ==
  \/ isLoading("make-call")
  \/ (~IsNull(selectedLead) /\ selectedLead.status = "calling")

MakeCallClick ==
  /\ ~MakeCallDisabled
  /\ ~IsNull(selectedLead)
  /\ timers[selectedLead.id] < MaxTimers
  /\ MenuItemClick("make-call")

\* variant: Retry Call is only offered for a Lead whose call failed
RetryCallClick_afterFailureOnly ==
  /\ ~isLoading("retry-call")
  /\ ~IsNull(selectedLead)
  /\ selectedLead.status \in CallFailureOutcomes
  /\ MenuItemClick("retry-call")

RetryCallClick ==
  /\ ~isLoading("retry-call")
  /\ MenuItemClick("retry-call")

RetryEntryClick ==
  /\ ~isLoading("retry-entry")
  /\ MenuItemClick("retry-entry")

MarkConfirmedClick ==
  /\ ~isLoading("mark-confirmed")
  /\ MenuItemClick("mark-confirmed")

\* variant: Update Status closes the menu through handleActionClose
openStatusUpdateDialog_closesMenu ==
  /\ actionMenuAnchor
  /\ selectedStatus' = IF IsNull(selectedLead) THEN "" ELSE selectedLead.status
  /\ statusUpdateDialogOpen' = TRUE
  /\ actionMenuAnchor' = FALSE
  /\ selectedLead' = Null
  /\ UNCHANGED << backendVars, leads, createVars, inflight, timers,
                  budgetVars >>

openStatusUpdateDialog ==
  /\ actionMenuAnchor
  /\ selectedStatus' = IF IsNull(selectedLead) THEN "" ELSE selectedLead.status
  /\ statusUpdateDialogOpen' = TRUE
  /\ actionMenuAnchor' = FALSE
  /\ UNCHANGED << backendVars, leads, selectedLead, createVars, inflight,
                  timers, budgetVars >>

\* onChange of the Select: one of the entries of statusLabels
SelectStatus(v) ==
  /\ statusUpdateDialogOpen
  /\ v \in statusLabels
  /\ selectedStatus' = v
  /\ UNCHANGED << backendVars, leads, selectedLead, actionMenuAnchor,
                  statusUpdateDialogOpen, createVars, inflight, timers,
                  budgetVars >>

\* Cancel, or onClose of the dialog: selectedLead is kept
StatusDialogClose ==
  /\ statusUpdateDialogOpen
  /\ statusUpdateDialogOpen' = FALSE
  /\ UNCHANGED << backendVars, leads, selectedLead, actionMenuAnchor,
                  selectedStatus, createVars, inflight, timers, budgetVars >>

UpdateDisabled == isLoading("status") \/ selectedStatus = ""

\* variant: the request carries the status of the row, not the chosen one
handleStatusUpdate_rowStatus ==
  /\ statusUpdateDialogOpen
  /\ ~UpdateDisabled
  /\ IF ~IsNull(selectedLead) /\ selectedStatus # ""
       THEN /\ CanSend
            /\ inflight' = Mutate(inflight,
                 Req("status", selectedLead.id, selectedLead.status, NoData,
                     "operator"))
       ELSE UNCHANGED inflight
  /\ UNCHANGED << backendVars, pageVars, timers, budgetVars >>

handleStatusUpdate ==
  /\ statusUpdateDialogOpen
  /\ ~UpdateDisabled
  /\ IF ~IsNull(selectedLead) /\ selectedStatus # ""
       THEN /\ CanSend
            /\ inflight' = Mutate(inflight,
                 Req("status", selectedLead.id, selectedStatus, NoData, "operator"))
       ELSE UNCHANGED inflight
  /\ UNCHANGED << backendVars, pageVars, timers, budgetVars >>

(* ------------------------------------ Leads page: onSuccess and onError *)
Settled(r) == r.phase = "done" /\ FromPage(r)

\* makeCallMutation.onSuccess: invalidate, and arm the 2 s timer
makeCallSettled(r) ==
  /\ r \in inflight
  /\ Settled(r)
  /\ r.op = "make-call"
  /\ inflight' = inflight \ {r}
  /\ timers' = IF r.ok /\ r.call_successful
                 THEN [timers EXCEPT ![r.id] = @ + 1] ELSE timers
  /\ UNCHANGED << backendVars, pageVars, budgetVars >>

\* updateStatusMutation.onSuccess closes the dialog; onError only toasts
updateStatusSettled(r) ==
  /\ r \in inflight
  /\ Settled(r)
  /\ r.op = "status"
  /\ inflight' = inflight \ {r}
  /\ statusUpdateDialogOpen' = IF r.ok THEN FALSE ELSE statusUpdateDialogOpen
  /\ UNCHANGED << backendVars, leads, selectedLead, actionMenuAnchor,
                  selectedStatus, createVars, timers, budgetVars >>

\* markConfirmed / retryCall / retryEntry: toast and invalidate only
triggerSettled(r) ==
  /\ r \in inflight
  /\ Settled(r)
  /\ r.op \in { "mark-confirmed", "retry-call", "retry-entry" }
  /\ inflight' = inflight \ {r}
  /\ UNCHANGED << backendVars, pageVars, timers, budgetVars >>

\* the setTimeout callback of makeCallMutation.onSuccess
TimerFires(i) ==
  /\ timers[i] > 0
  /\ CanSend
  /\ timers' = [timers EXCEPT ![i] = @ - 1]
  /\ inflight' = Mutate(inflight, Req("mark-confirmed", i, "", NoData, "timer"))
  /\ UNCHANGED << backendVars, pageVars, budgetVars >>

(* ------------------------------------- Leads page: import and manual add *)
openUploadDialog ==
  /\ NoModalOpen
  /\ uploadDialogOpen' = TRUE
  /\ UNCHANGED << backendVars, leads, menuVars, selectedFile, addDialogOpen,
                  newLead, edits, inflight, timers, budgetVars >>

\* onChange of the file input: files[0], undefined when the picker is emptied
selectFile(f) ==
  /\ uploadDialogOpen
  /\ f \in Files \cup { Null }
  /\ selectedFile' = f
  /\ UNCHANGED << backendVars, leads, menuVars, uploadDialogOpen, addDialogOpen,
                  newLead, edits, inflight, timers, budgetVars >>

\* Cancel, or onClose of the dialog: selectedFile is kept
closeUploadDialog ==
  /\ uploadDialogOpen
  /\ uploadDialogOpen' = FALSE
  /\ UNCHANGED << backendVars, leads, menuVars, selectedFile, addDialogOpen,
                  newLead, edits, inflight, timers, budgetVars >>

UploadDisabled == IsNull(selectedFile) \/ isLoading("import")

handleFileUpload ==
  /\ uploadDialogOpen
  /\ ~UploadDisabled
  /\ IF ~IsNull(selectedFile)
       THEN /\ CanSend
            /\ inflight' = Mutate(inflight,
                 Req("import", 0, "", selectedFile, "operator"))
       ELSE UNCHANGED inflight
  /\ UNCHANGED << backendVars, pageVars, timers, budgetVars >>

\* uploadMutation: onSuccess closes and clears; onError only toasts
uploadSettled(r) ==
  /\ r \in inflight
  /\ Settled(r)
  /\ r.op = "import"
  /\ inflight' = inflight \ {r}
  /\ uploadDialogOpen' = IF r.ok THEN FALSE ELSE uploadDialogOpen
  /\ selectedFile' = IF r.ok THEN Null ELSE selectedFile
  /\ UNCHANGED << backendVars, leads, menuVars, addDialogOpen, newLead, edits,
                  timers, budgetVars >>

openAddDialog ==
  /\ NoModalOpen
  /\ addDialogOpen' = TRUE
  /\ UNCHANGED << backendVars, leads, menuVars, selectedFile, uploadDialogOpen,
                  newLead, edits, inflight, timers, budgetVars >>

\* onChange of a TextField: setNewLead({ ...newLead, [f]: v })
editNewLead(f, v) ==
  /\ addDialogOpen
  /\ f \in DOMAIN EmptyLead
  /\ v \in FieldValues
  /\ newLead[f] # v
  /\ edits < MaxEdits
  /\ edits' = edits + 1
  /\ newLead' = [newLead EXCEPT ![f] = v]
  /\ UNCHANGED << backendVars, leads, menuVars, selectedFile, uploadDialogOpen,
                  addDialogOpen, inflight, timers, budgetVars >>

\* Cancel, or onClose of the dialog: newLead is kept
closeAddDialog ==
  /\ addDialogOpen
  /\ addDialogOpen' = FALSE
  /\ UNCHANGED << backendVars, leads, menuVars, selectedFile, uploadDialogOpen,
                  newLead, edits, inflight, timers, budgetVars >>

handleAddLead ==
  /\ addDialogOpen
  /\ ~isLoading("add")
  /\ CanSend
  /\ inflight' = Mutate(inflight, Req("add", 0, "", newLead, "operator"))
  /\ UNCHANGED << backendVars, pageVars, timers, budgetVars >>

\* variant: onError closes the dialog and resets the form as well
addLeadSettled_resetsOnError(r) ==
  /\ r \in inflight
  /\ Settled(r)
  /\ r.op = "add"
  /\ inflight' = inflight \ {r}
  /\ addDialogOpen' = FALSE
  /\ newLead' = EmptyLead
  /\ UNCHANGED << backendVars, leads, menuVars, selectedFile, uploadDialogOpen,
                  edits, timers, budgetVars >>

\* addLeadMutation: onSuccess closes and resets the form; onError only toasts
addLeadSettled(r) ==
  /\ r \in inflight
  /\ Settled(r)
  /\ r.op = "add"
  /\ inflight' = inflight \ {r}
  /\ addDialogOpen' = IF r.ok THEN FALSE ELSE addDialogOpen
  /\ newLead' = IF r.ok THEN EmptyLead ELSE newLead
  /\ UNCHANGED << backendVars, leads, menuVars, selectedFile, uploadDialogOpen,
                  edits, timers, budgetVars >>

(* -------------------------------------------- a second Leads page (tab) *)
\* 'Retry Data Entry' clicked in another browser; only its request is kept
OtherPageRetryEntry(i) ==
  /\ i \in DOMAIN dbLeads
  /\ otherSent < MaxOther
  /\ CanSend
  /\ ~\E q \in inflight : q.op = "retry-entry" /\ q.origin = "other"
  /\ otherSent' = otherSent + 1
  /\ inflight' = inflight \cup { Req("retry-entry", i, "", NoData, "other") }
  /\ UNCHANGED << backendVars, pageVars, timers, menuOpens >>

(* ------------------------------------------------------------- backend *)
\* endpoints whose effect depends on the Lead's current status
GuardedOps == { "make-call", "retry-call", "retry-entry" }

\* the recording references that can arrive for a call
Recordings == { "rec_a", "rec_b" }

\* a CallLog row as written when the call is initiated
CallLogRow(i) == [ lead_id |-> i, ended |-> FALSE, recording |-> "none" ]

\* the latest CallLog row of the Lead
LatestCall(i) ==
  CHOOSE n \in DOMAIN callLogs :
    /\ callLogs[n].lead_id = i
    /\ \A m \in DOMAIN callLogs : callLogs[m].lead_id = i => m <= n

AttemptsOf(i) ==
  Cardinality({ n \in DOMAIN dataEntryLogs : dataEntryLogs[n].lead_id = i })

\* variant: every row of a retried entry is numbered as the first attempt
DataEntryLogRow_firstAttempt(i) == [ lead_id |-> i, attempt_number |-> 1 ]

\* a new attempt is numbered after the Lead's rows already stored
DataEntryLogRow(i) == [ lead_id |-> i, attempt_number |-> AttemptsOf(i) + 1 ]

\* a call is initiated for the Lead; done says whether it already succeeded
StartCall(l, done) ==
  [ l EXCEPT !.status = "calling", !.call_completed_at = done,
             !.call_successful = done, !.status_updated_after_call = FALSE,
             !.tcpa_opt_in = @ \/ done ]

\* variant: the Lead's latest CallLog row is reused instead of a new one
EnterCalling_reuseRow(i, done) ==
  /\ Len(callLogs) < MaxCallLogs
  /\ dbLeads' = [dbLeads EXCEPT ![i] = StartCall(@, done)]
  /\ callLogs' = IF \E n \in DOMAIN callLogs : callLogs[n].lead_id = i
                   THEN callLogs
                   ELSE Append(callLogs, [CallLogRow(i) EXCEPT !.ended = done])
  /\ UNCHANGED dataEntryLogs

\* the Lead moves to calling: one new CallLog row
EnterCalling(i, done) ==
  /\ Len(callLogs) < MaxCallLogs
  /\ dbLeads' = [dbLeads EXCEPT ![i] = StartCall(@, done)]
  /\ callLogs' = Append(callLogs, [CallLogRow(i) EXCEPT !.ended = done])
  /\ UNCHANGED dataEntryLogs

\* the Lead moves to entry_in_progress: one new DataEntryLog row
EnterEntry(i) ==
  /\ Len(dataEntryLogs) < MaxEntryLogs
  /\ dbLeads' = [dbLeads EXCEPT ![i].status = "entry_in_progress"]
  /\ dataEntryLogs' = Append(dataEntryLogs, DataEntryLogRow(i))
  /\ UNCHANGED callLogs

\* the response travels back; a second page's response is not tracked
Respond(r, ok, cs) ==
  inflight' =
    IF FromPage(r)
      THEN (inflight \ {r}) \cup
             { [r EXCEPT !.phase = "done", !.ok = ok, !.call_successful = cs] }
      ELSE inflight \ {r}

\* the request fails (network error, 4xx, 5xx) before it changes anything
RequestFails(r) ==
  /\ r \in inflight
  /\ r.phase = "sent"
  /\ Respond(r, FALSE, FALSE)
  /\ UNCHANGED << backendVars, pageVars, timers, budgetVars >>

\* a guarded endpoint loads the Lead and looks at its status
BackendRead(r) ==
  /\ r \in inflight
  /\ r.phase = "sent"
  /\ r.op \in GuardedOps
  /\ r.id \in DOMAIN dbLeads
  /\ inflight' = (inflight \ {r}) \cup
       { [r EXCEPT !.phase = "read", !.seen = dbLeads[r.id].status] }
  /\ UNCHANGED << backendVars, pageVars, timers, budgetVars >>

\* table row: pending --call initiated--> calling
MakeCallCommit(r) ==
  /\ r \in inflight
  /\ r.phase = "read"
  /\ r.op = "make-call"
  /\ IF r.seen = "pending"
       THEN \E cs \in BOOLEAN :
              /\ EnterCalling(r.id, cs)
              /\ Respond(r, TRUE, cs)
       ELSE /\ UNCHANGED backendVars
            /\ Respond(r, FALSE, FALSE)
  /\ UNCHANGED << pageVars, timers, budgetVars >>

\* table row: any non-terminal --operator retry call--> calling
RetryCallCommit(r) ==
  /\ r \in inflight
  /\ r.phase = "read"
  /\ r.op = "retry-call"
  /\ IF r.seen \notin Terminal
       THEN /\ EnterCalling(r.id, FALSE)
            /\ Respond(r, TRUE, FALSE)
       ELSE /\ UNCHANGED backendVars
            /\ Respond(r, FALSE, FALSE)
  /\ UNCHANGED << pageVars, timers, budgetVars >>

\* table row: entry_failed --operator retry entry--> entry_in_progress
RetryEntryCommit(r) ==
  /\ r \in inflight
  /\ r.phase = "read"
  /\ r.op = "retry-entry"
  /\ IF r.seen = "entry_failed"
       THEN /\ EnterEntry(r.id)
            /\ Respond(r, TRUE, FALSE)
       ELSE /\ UNCHANGED backendVars
            /\ Respond(r, FALSE, FALSE)
  /\ UNCHANGED << pageVars, timers, budgetVars >>

\* variant: mark-confirmed only acts on a Lead that is calling
MarkConfirmedCommit_fromCallingOnly(r) ==
  /\ r \in inflight
  /\ r.phase = "sent"
  /\ r.op = "mark-confirmed"
  /\ r.id \in DOMAIN dbLeads
  /\ dbLeads' = IF dbLeads[r.id].status = "calling"
                  THEN [dbLeads EXCEPT ![r.id].status = "confirmed",
                                       ![r.id].status_updated_after_call =
                                          dbLeads[r.id].call_completed_at]
                  ELSE dbLeads
  /\ UNCHANGED << callLogs, dataEntryLogs >>
  /\ Respond(r, TRUE, FALSE)
  /\ UNCHANGED << pageVars, timers, budgetVars >>

\* mark-confirmed: accepted from any status
MarkConfirmedCommit(r) ==
  /\ r \in inflight
  /\ r.phase = "sent"
  /\ r.op = "mark-confirmed"
  /\ r.id \in DOMAIN dbLeads
  /\ dbLeads' = [dbLeads EXCEPT ![r.id].status = "confirmed",
                                ![r.id].status_updated_after_call =
                                   dbLeads[r.id].call_completed_at]
  /\ UNCHANGED << callLogs, dataEntryLogs >>
  /\ Respond(r, TRUE, FALSE)
  /\ UNCHANGED << pageVars, timers, budgetVars >>

\* table row: any state --operator manual override--> any state
StatusOverrideCommit(r) ==
  /\ r \in inflight
  /\ r.phase = "sent"
  /\ r.op = "status"
  /\ r.id \in DOMAIN dbLeads
  /\ IF r.status = "calling" /\ dbLeads[r.id].status # "calling"
       THEN EnterCalling(r.id, FALSE)
       ELSE IF r.status = "entry_in_progress"
                 /\ dbLeads[r.id].status # "entry_in_progress"
              THEN EnterEntry(r.id)
              ELSE /\ dbLeads' = [dbLeads EXCEPT ![r.id].status = r.status]
                   /\ UNCHANGED << callLogs, dataEntryLogs >>
  /\ Respond(r, TRUE, FALSE)
  /\ UNCHANGED << pageVars, timers, budgetVars >>

RECURSIVE NewRows(_)
NewRows(n) == IF n = 0 THEN << >> ELSE Append(NewRows(n - 1), NewLeadRow)

\* POST /leads/: one new Lead, whatever the submitted fields
AddLeadCommit(r) ==
  /\ r \in inflight
  /\ r.phase = "sent"
  /\ r.op = "add"
  /\ Len(dbLeads) < StoreCap
  /\ dbLeads' = dbLeads \o NewRows(1)
  /\ UNCHANGED << callLogs, dataEntryLogs >>
  /\ Respond(r, TRUE, FALSE)
  /\ UNCHANGED << pageVars, timers, budgetVars >>

\* variant: an import replaces the stored Leads by the rows of the file
ImportCommit_replace(r) ==
  /\ r \in inflight
  /\ r.phase = "sent"
  /\ r.op = "import"
  /\ dbLeads' = NewRows(r.data.rows)
  /\ UNCHANGED << callLogs, dataEntryLogs >>
  /\ Respond(r, TRUE, FALSE)
  /\ UNCHANGED << pageVars, timers, budgetVars >>

\* POST /leads/import-csv/: one new Lead per data row of the file
ImportCommit(r) ==
  /\ r \in inflight
  /\ r.phase = "sent"
  /\ r.op = "import"
  /\ Len(dbLeads) + r.data.rows <= StoreCap
  /\ dbLeads' = dbLeads \o NewRows(r.data.rows)
  /\ UNCHANGED << callLogs, dataEntryLogs >>
  /\ Respond(r, TRUE, FALSE)
  /\ UNCHANGED << pageVars, timers, budgetVars >>

(* -------------------------------------------------------------- agents *)
\* Voice Agent picks up a pending Lead: pending --call initiated--> calling
AgentCallInitiated(i) ==
  /\ dbLeads[i].status = "pending"
  /\ EnterCalling(i, FALSE)
  /\ UNCHANGED << pageVars, inflight, timers, budgetVars >>

\* the call ends; consent is recorded when the call succeeded
CallEnds(i, ok) ==
  /\ dbLeads[i].status = "calling"
  /\ ~dbLeads[i].call_completed_at
  /\ dbLeads' = [dbLeads EXCEPT ![i].call_completed_at = TRUE,
                                ![i].call_successful = ok,
                                ![i].tcpa_opt_in = @ \/ ok]
  /\ callLogs' = [callLogs EXCEPT ![LatestCall(i)].ended = TRUE]
  /\ UNCHANGED << dataEntryLogs, pageVars, inflight, timers, budgetVars >>

\* variant: a recording reference replaces the one the row already has
RecordingArrives_overwrite(n, ref) ==
  /\ n \in DOMAIN callLogs
  /\ callLogs[n].ended
  /\ callLogs[n].recording # ref
  /\ callLogs' = [callLogs EXCEPT ![n].recording = ref]
  /\ UNCHANGED << dbLeads, dataEntryLogs, pageVars, inflight, timers,
                  budgetVars >>

\* the recording reference of an ended call arrives
RecordingArrives(n, ref) ==
  /\ n \in DOMAIN callLogs
  /\ callLogs[n].ended
  /\ callLogs[n].recording = "none"
  /\ callLogs' = [callLogs EXCEPT ![n].recording = ref]
  /\ UNCHANGED << dbLeads, dataEntryLogs, pageVars, inflight, timers,
                  budgetVars >>

\* table rows: calling --> confirmed | call_failed | no_answer | callback_requested
CallOutcome(i, s) ==
  /\ dbLeads[i].status = "calling"
  /\ dbLeads[i].call_completed_at
  /\ ~dbLeads[i].status_updated_after_call
  /\ IF dbLeads[i].call_successful
       THEN s = "confirmed"
       ELSE s \in CallFailureOutcomes
  /\ dbLeads' = [dbLeads EXCEPT ![i].status = s,
                                ![i].status_updated_after_call = TRUE]
  /\ UNCHANGED << callLogs, dataEntryLogs, pageVars, inflight, timers,
                  budgetVars >>

\* Data Entry Agent: confirmed --entry process starts--> entry_in_progress
EntryStarts(i) ==
  /\ dbLeads[i].status = "confirmed"
  /\ EnterEntry(i)
  /\ UNCHANGED << pageVars, inflight, timers, budgetVars >>

\* variant: the agent also completes a Lead whose entry never started
EntryOutcome_fromConfirmed(i, ok) ==
  /\ dbLeads[i].status \in { "entry_in_progress", "confirmed" }
  /\ dbLeads' = [dbLeads EXCEPT ![i].status =
                   IF ok THEN "entered" ELSE "entry_failed"]
  /\ UNCHANGED << callLogs, dataEntryLogs, pageVars, inflight, timers,
                  budgetVars >>

\* table rows: entry_in_progress --> entered | entry_failed
EntryOutcome(i, ok) ==
  /\ dbLeads[i].status = "entry_in_progress"
  /\ dbLeads' = [dbLeads EXCEPT ![i].status =
                   IF ok THEN "entered" ELSE "entry_failed"]
  /\ UNCHANGED << callLogs, dataEntryLogs, pageVars, inflight, timers,
                  budgetVars >>

(* ------------------------------------------------------- specification *)
\* the action menu, its triggers, the poll and the timer
MenuStep ==
  \/ LeadsQuerySuccess
  \/ \E i \in DOMAIN dbLeads : handleActionClick(i)
  \/ handleActionClose
  \/ MakeCallClick
  \/ RetryCallClick
  \/ RetryEntryClick
  \/ MarkConfirmedClick
  \/ \E r \in inflight : makeCallSettled(r)
  \/ \E r \in inflight : triggerSettled(r)
  \/ \E i \in DOMAIN dbLeads : TimerFires(i)

\* the manual status override, from the dialog to the backend and back
OverrideStep ==
  \/ openStatusUpdateDialog
  \/ \E v \in statusLabels : SelectStatus(v)
  \/ StatusDialogClose
  \/ handleStatusUpdate
  \/ \E r \in inflight : StatusOverrideCommit(r)
  \/ \E r \in inflight : updateStatusSettled(r)

BackendStep ==
  \/ \E r \in inflight : RequestFails(r)
  \/ \E r \in inflight : BackendRead(r)
  \/ \E r \in inflight : MakeCallCommit(r)
  \/ \E r \in inflight : RetryCallCommit(r)
  \/ \E r \in inflight : RetryEntryCommit(r)
  \/ \E r \in inflight : MarkConfirmedCommit(r)

AgentStep ==
  \/ \E i \in DOMAIN dbLeads : AgentCallInitiated(i)
  \/ \E i \in DOMAIN dbLeads, ok \in BOOLEAN : CallEnds(i, ok)
  \/ \E i \in DOMAIN dbLeads, s \in statusLabels : CallOutcome(i, s)
  \/ \E i \in DOMAIN dbLeads : EntryStarts(i)
  \/ \E i \in DOMAIN dbLeads, ok \in BOOLEAN : EntryOutcome(i, ok)

OtherStep == \E i \in DOMAIN dbLeads : OtherPageRetryEntry(i)

\* import and manual add, from the dialogs to the backend and back
CreateStep ==
  \/ LeadsQuerySuccess
  \/ openUploadDialog
  \/ \E f \in Files \cup { Null } : selectFile(f)
  \/ closeUploadDialog
  \/ handleFileUpload
  \/ \E r \in inflight : uploadSettled(r)
  \/ openAddDialog
  \/ \E f \in DOMAIN EmptyLead, v \in FieldValues : editNewLead(f, v)
  \/ closeAddDialog
  \/ handleAddLead
  \/ \E r \in inflight : addLeadSettled(r)
  \/ \E r \in inflight : RequestFails(r)
  \/ \E r \in inflight : AddLeadCommit(r)
  \/ \E r \in inflight : ImportCommit(r)

\* history of the statuses a Lead went through
Advance(i) ==
  IF i \in DOMAIN dbLeads' /\ i \in DOMAIN dbLeads
    THEN IF dbLeads'[i].status = "confirmed" /\ trail[i] = 0
           THEN 1
           ELSE IF dbLeads'[i].status = "entry_in_progress" /\ trail[i] >= 1
                  THEN 2
                  ELSE trail[i]
    ELSE trail[i]

\* one dashboard, every operator action on the stored Leads
Next ==
  /\ MenuStep \/ OverrideStep \/ BackendStep \/ AgentStep
  /\ UNCHANGED << trail, laterVars >>

Spec == Init /\ [][Next]_vars

\* two dashboards, no manual status override
NextWorkflow ==
  /\ MenuStep \/ BackendStep \/ AgentStep \/ OtherStep
  /\ trail' = [ i \in 1..StoreCap |-> Advance(i) ]
  /\ UNCHANGED laterVars

SpecWorkflow == Init /\ [][NextWorkflow]_vars

\* one dashboard creating Leads
NextCreate ==
  /\ CreateStep
  /\ UNCHANGED << trail, laterVars >>

SpecCreate == InitCreate /\ [][NextCreate]_vars

\* one dashboard, the agents, and the recordings arriving after the calls
NextCallLog ==
  /\ \/ MenuStep
     \/ BackendStep
     \/ AgentStep
     \/ \E n \in DOMAIN callLogs, ref \in Recordings : RecordingArrives(n, ref)
  /\ UNCHANGED << trail, laterVars >>

SpecCallLog == Init /\ [][NextCallLog]_vars

(* ------------------------------------------- Settings page: the handlers *)
\* useEffect(() => { fetchCallSettings() }, []) up to the await
fetchCallSettings ==
  /\ ~settingsMounted
  /\ settingsMounted' = TRUE
  /\ loading' = TRUE
  /\ settingsReqs' = settingsReqs \cup { [ op |-> "get", body |-> NoData ] }
  /\ UNCHANGED << callSettings, snackbar, serverSettings, settingEdits,
                  settingsSaves >>

\* fetchCallSettings after the await: try / catch / finally
fetchSettled(r, ok) ==
  /\ r \in settingsReqs
  /\ r.op = "get"
  /\ callSettings' = IF ok THEN serverSettings ELSE callSettings
  /\ snackbar' = IF ok THEN snackbar
                       ELSE [ open |-> TRUE,
                              message |-> "Error loading settings",
                              severity |-> "error" ]
  /\ loading' = FALSE
  /\ settingsReqs' = settingsReqs \ { r }
  /\ UNCHANGED << serverSettings, settingsMounted, settingEdits,
                  settingsSaves >>

handleCloseSnackbar ==
  /\ settingsMounted
  /\ snackbar.open
  /\ snackbar' = [ snackbar EXCEPT !.open = FALSE ]
  /\ UNCHANGED << callSettings, loading, settingsReqs, serverSettings,
                  settingsMounted, settingEdits, settingsSaves >>

\* onChange of the Day 1, Day 2 and Day 6+ fields
EditDay(day, value) ==
  /\ settingsMounted
  /\ settingEdits < MaxSettingEdits
  /\ settingEdits' = settingEdits + 1
  /\ callSettings' =
       setState(callSettings, handleCallSettingChange(callSettings, day, value))
  /\ UNCHANGED << loading, snackbar, settingsReqs, serverSettings,
                  settingsMounted, settingsSaves >>

\* onChange of the Days 3-5 field: three calls of handleCallSettingChange in
\* one handler, each spreading the callSettings of the current render
EditDays3to5(value) ==
  /\ settingsMounted
  /\ settingEdits < MaxSettingEdits
  /\ settingEdits' = settingEdits + 1
  /\ callSettings' =
       LET first == setState(callSettings,
                             handleCallSettingChange(callSettings, "day3", value))
           second == setState(first,
                              handleCallSettingChange(callSettings, "day4", value))
       IN  setState(second,
                    handleCallSettingChange(callSettings, "day5", value))
  /\ UNCHANGED << loading, snackbar, settingsReqs, serverSettings,
                  settingsMounted, settingsSaves >>

\* Save Call Settings, disabled while loading: saveCallSettings up to the await
saveCallSettings ==
  /\ settingsMounted
  /\ ~loading
  /\ settingsSaves < MaxSaves
  /\ settingsSaves' = settingsSaves + 1
  /\ loading' = TRUE
  /\ settingsReqs' = settingsReqs \cup { [ op |-> "post", body |-> callSettings ] }
  /\ UNCHANGED << callSettings, snackbar, serverSettings, settingsMounted,
                  settingEdits >>

\* the backend stores the posted caps, and saveCallSettings goes on after the
\* await: try / catch / finally
saveSettled(r, ok) ==
  /\ r \in settingsReqs
  /\ r.op = "post"
  /\ serverSettings' = IF ok THEN r.body ELSE serverSettings
  /\ snackbar' = [ open |-> TRUE,
                   message |-> IF ok THEN "Call attempt settings saved successfully!"
                                     ELSE "Error saving settings",
                   severity |-> IF ok THEN "success" ELSE "error" ]
  /\ loading' = FALSE
  /\ settingsReqs' = settingsReqs \ { r }
  /\ UNCHANGED << callSettings, settingsMounted, settingEdits, settingsSaves >>

\* the Settings page alone
NextSettings ==
  /\ \/ fetchCallSettings
     \/ \E r \in settingsReqs, ok \in BOOLEAN : fetchSettled(r, ok)
     \/ handleCloseSnackbar
     \/ \E day \in { "day1", "day2", "day6" }, value \in Inputs :
          EditDay(day, value)
     \/ \E value \in Inputs : EditDays3to5(value)
     \/ saveCallSettings
     \/ \E r \in settingsReqs, ok \in BOOLEAN : saveSettled(r, ok)
  /\ UNCHANGED << leadsPageVars, layoutVars, leadsStale, dashboardVars >>

SpecSettings == Init /\ [][NextSettings]_vars

(* ------------------------------------------------- header: agent toggle *)
\* a response of the 'agentStatus' query (refetchInterval 5000, or after an
\* invalidation)
AgentStatusSuccess ==
  /\ agentStatus' = [ loaded |-> TRUE, agents_running |-> agentsRunning ]
  /\ UNCHANGED << agentsRunning, agentReqs, toggles >>

\* startAgentsMutation.isLoading || stopAgentsMutation.isLoading
ToggleDisabled == agentReqs # {}

\* click on the toggle: agentStatus?.agents_running picks stop or start
handleAgentToggle ==
  /\ ~ToggleDisabled
  /\ toggles < MaxToggles
  /\ toggles' = toggles + 1
  /\ agentReqs' = agentReqs \cup
       { [ op |-> IF agentStatus.loaded /\ agentStatus.agents_running
                    THEN "stop" ELSE "start",
           phase |-> "sent", ok |-> FALSE ] }
  /\ UNCHANGED << agentStatus, agentsRunning >>

\* the backend starts or stops the agents and answers
AgentsCommit(r) ==
  /\ r \in agentReqs
  /\ r.phase = "sent"
  /\ agentsRunning' = (r.op = "start")
  /\ agentReqs' = (agentReqs \ { r }) \cup
       { [ r EXCEPT !.phase = "done", !.ok = TRUE ] }
  /\ UNCHANGED << agentStatus, toggles >>

\* the request fails
AgentsRequestFails(r) ==
  /\ r \in agentReqs
  /\ r.phase = "sent"
  /\ agentReqs' = (agentReqs \ { r }) \cup
       { [ r EXCEPT !.phase = "done", !.ok = FALSE ] }
  /\ UNCHANGED << agentStatus, agentsRunning, toggles >>

\* onSuccess (toast, invalidateQueries) / onError (toast) of the mutation
agentsSettled(r) ==
  /\ r \in agentReqs
  /\ r.phase = "done"
  /\ agentReqs' = agentReqs \ { r }
  /\ UNCHANGED << agentStatus, agentsRunning, toggles >>

\* the header of one dashboard
NextLayout ==
  /\ \/ AgentStatusSuccess
     \/ handleAgentToggle
     \/ \E r \in agentReqs : AgentsCommit(r)
     \/ \E r \in agentReqs : AgentsRequestFails(r)
     \/ \E r \in agentReqs : agentsSettled(r)
  /\ UNCHANGED << leadsPageVars, settingsVars, leadsStale, dashboardVars >>

SpecLayout == Init /\ [][NextLayout]_vars

(* ------------------------------------------ the menu and the dialog alone *)
\* the dashboard opens on two pending Leads; the run is about the menu
InitMenu ==
  /\ scenario = [ NoScenario EXCEPT !.op = "menu" ]
  /\ dbLeads = [ i \in 1..StoreCap |-> NewLeadRow ]
  /\ callLogs = << >>
  /\ dataEntryLogs = << >>
  /\ trail = [ i \in 1..StoreCap |-> 0 ]
  /\ InitPage

\* open, close, menu items and the status dialog, the backend answering
NextMenu ==
  /\ \/ LeadsQuerySuccess
     \/ \E i \in DOMAIN dbLeads : handleActionClick(i)
     \/ handleActionClose
     \/ MakeCallClick
     \/ RetryCallClick
     \/ RetryEntryClick
     \/ MarkConfirmedClick
     \/ openStatusUpdateDialog
     \/ \E v \in { "pending", "confirmed" } : SelectStatus(v)
     \/ StatusDialogClose
     \/ handleStatusUpdate
     \/ \E r \in inflight : RequestFails(r)
     \/ \E r \in inflight : BackendRead(r)
     \/ \E r \in inflight : MakeCallCommit(r)
     \/ \E r \in inflight : RetryCallCommit(r)
     \/ \E r \in inflight : RetryEntryCommit(r)
     \/ \E r \in inflight : MarkConfirmedCommit(r)
     \/ \E r \in inflight : StatusOverrideCommit(r)
     \/ \E r \in inflight : makeCallSettled(r)
     \/ \E r \in inflight : triggerSettled(r)
     \/ \E r \in inflight : updateStatusSettled(r)
     \/ \E i \in DOMAIN dbLeads : TimerFires(i)
  /\ UNCHANGED << trail, laterVars >>

SpecMenu == InitMenu /\ [][NextMenu]_vars

\* the requests the Leads page can send
PageOps ==
  { "import", "add", "make-call", "status", "mark-confirmed", "retry-call",
    "retry-entry" }

(* ------------------------------------------- invalidation and refetch *)
\* variant: only the import's onSuccess invalidates the query
invalidateQueries_importOnly ==
  \E r \in inflight : Settled(r) /\ r.ok /\ r.op = "import" /\ r \notin inflight'

\* the step runs an onSuccess of the page: each of the seven calls
\* queryClient.invalidateQueries('leads')
invalidateQueries ==
  \E r \in inflight : Settled(r) /\ r.ok /\ r \notin inflight'

\* the flag of the query: set by an invalidation, cleared by new data
Invalidation ==
  /\ leadsStale' = IF invalidateQueries THEN TRUE
                    ELSE IF leads' # leads THEN FALSE
                    ELSE leadsStale
  /\ UNCHANGED << trail, errorVars, scenario, settingsVars, layoutVars,
                  dashboardVars >>

\* what the operator does on the page
OperatorPart ==
  /\ \/ \E i \in DOMAIN dbLeads : handleActionClick(i)
     \/ handleActionClose
     \/ MakeCallClick
     \/ RetryCallClick
     \/ RetryEntryClick
     \/ MarkConfirmedClick
     \/ openStatusUpdateDialog
     \/ \E v \in { "pending", "confirmed" } : SelectStatus(v)
     \/ StatusDialogClose
     \/ handleStatusUpdate
     \/ openUploadDialog
     \/ \E f \in Files \cup { Null } : selectFile(f)
     \/ closeUploadDialog
     \/ handleFileUpload
     \/ openAddDialog
     \/ closeAddDialog
     \/ handleAddLead
  /\ Invalidation

\* the backend answers, and the page handles the answer
AnswerPart ==
  /\ \/ BackendStep
     \/ \E r \in inflight : StatusOverrideCommit(r)
     \/ \E r \in inflight : AddLeadCommit(r)
     \/ \E r \in inflight : ImportCommit(r)
     \/ \E r \in inflight : makeCallSettled(r)
     \/ \E r \in inflight : triggerSettled(r)
     \/ \E r \in inflight : updateStatusSettled(r)
     \/ \E r \in inflight : uploadSettled(r)
     \/ \E r \in inflight : addLeadSettled(r)
     \/ \E i \in DOMAIN dbLeads : TimerFires(i)
  /\ Invalidation

\* the first fetch, and the refetch of an invalidated query
RefetchPart ==
  /\ ~leads.loaded \/ leadsStale
  /\ LeadsQuerySuccess
  /\ Invalidation

\* the page's own mutations, with no interval poll and no agent
NextRefetch == OperatorPart \/ AnswerPart \/ RefetchPart

\* an answer step about a request of the given mutation
AnswerFor(op) ==
  /\ AnswerPart
  /\ \E r \in inflight : r.op = op /\ r \notin inflight'

\* the callback of a pending setTimeout runs
TimerPart ==
  /\ AnswerPart
  /\ \E i \in DOMAIN timers : timers'[i] < timers[i]

\* the backend keeps answering every request, handlers and timers run, and a
\* refetch that is due is made
SpecRefetch ==
  /\ Init
  /\ [][NextRefetch]_vars
  /\ \A op \in PageOps : WF_vars(AnswerFor(op))
  /\ WF_vars(TimerPart)
  /\ SF_vars(RefetchPart)

(* ------------------------------------------- Dashboard: the statistics *)
\* a response of the 'dashboardStats' query (refetchInterval 10000), and the
\* render that follows
StatsQuerySuccess(st) ==
  /\ st \in StatsRecords
  /\ Counted(st)
  /\ dashboardStats' = st
  /\ progress' = WorkflowProgress(st)

NextDashboard ==
  /\ \E st \in StatsRecords : StatsQuerySuccess(st)
  /\ UNCHANGED << leadsPageVars, settingsVars, layoutVars, leadsStale >>

SpecDashboard == Init /\ [][NextDashboard]_vars

(* ------------------------------------------------------- retry scenarios *)
LeadRow(s, tcpa, completed, successful, updated) ==
  [ status |-> s, tcpa_opt_in |-> tcpa, call_completed_at |-> completed,
    call_successful |-> successful, status_updated_after_call |-> updated ]

\* the non-terminal situations a Lead can be in, with the numbers of CallLog
\* and DataEntryLog rows written for it and its history so far
RetryStarts ==
  { [ row |-> NewLeadRow, calls |-> 0, entries |-> 0, trail |-> 0 ],
    [ row |-> LeadRow("calling", FALSE, FALSE, FALSE, FALSE),
      calls |-> 1, entries |-> 0, trail |-> 0 ],
    [ row |-> LeadRow("calling", TRUE, TRUE, TRUE, FALSE),
      calls |-> 1, entries |-> 0, trail |-> 0 ],
    [ row |-> LeadRow("calling", FALSE, TRUE, FALSE, FALSE),
      calls |-> 1, entries |-> 0, trail |-> 0 ],
    [ row |-> LeadRow("confirmed", TRUE, TRUE, TRUE, TRUE),
      calls |-> 1, entries |-> 0, trail |-> 1 ],
    [ row |-> LeadRow("confirmed", FALSE, FALSE, FALSE, FALSE),
      calls |-> 0, entries |-> 0, trail |-> 1 ],
    [ row |-> LeadRow("entry_in_progress", TRUE, TRUE, TRUE, TRUE),
      calls |-> 1, entries |-> 1, trail |-> 2 ],
    [ row |-> LeadRow("entry_in_progress", FALSE, FALSE, FALSE, FALSE),
      calls |-> 0, entries |-> 1, trail |-> 2 ],
    [ row |-> LeadRow("entry_failed", TRUE, TRUE, TRUE, TRUE),
      calls |-> 1, entries |-> 1, trail |-> 2 ],
    [ row |-> LeadRow("entry_failed", FALSE, FALSE, FALSE, FALSE),
      calls |-> 0, entries |-> 1, trail |-> 2 ] }
  \cup { [ row |-> LeadRow(s, FALSE, TRUE, FALSE, TRUE),
          calls |-> 1, entries |-> 0, trail |-> 0 ] : s \in CallFailureOutcomes }

\* the dashboard opens while one Lead is somewhere in the workflow; the
\* operator means to retry its call, or its entry if the entry failed
InitRetry ==
  /\ \E st \in RetryStarts, op \in { "call", "entry" }, i \in LeadIds :
       /\ op = "entry" => st.row.status = "entry_failed"
       /\ dbLeads = [ j \in LeadIds |-> IF j = i THEN st.row ELSE NewLeadRow ]
       /\ callLogs =
            [ n \in 1..st.calls |->
                [ CallLogRow(i) EXCEPT !.ended =
                    st.row.status # "calling" \/ st.row.call_completed_at ] ]
       /\ dataEntryLogs =
            [ n \in 1..st.entries |-> [ lead_id |-> i, attempt_number |-> n ] ]
       /\ trail = [ j \in 1..StoreCap |-> IF j = i THEN st.trail ELSE 0 ]
       /\ scenario = [ op |-> op, lead |-> i, calls |-> st.calls,
                       entries |-> st.entries ]
  /\ InitPage

\* the operator opens the Lead's menu and clicks the retry item; the backend
\* handles the requests; nothing else happens to the Lead meanwhile
NextRetry ==
  /\ \/ LeadsQuerySuccess
     \/ handleActionClick(scenario.lead)
     \/ (scenario.op = "call" /\ RetryCallClick)
     \/ (scenario.op = "entry" /\ RetryEntryClick)
     \/ \E r \in inflight : BackendRead(r)
     \/ \E r \in inflight : RetryCallCommit(r)
     \/ \E r \in inflight : RetryEntryCommit(r)
     \/ \E r \in inflight : MarkConfirmedCommit(r)
     \/ \E r \in inflight : triggerSettled(r)
  /\ trail' = [ i \in 1..StoreCap |-> Advance(i) ]
  /\ UNCHANGED laterVars

\* every step of the scenario that can be taken is eventually taken
SpecRetry == InitRetry /\ [][NextRetry]_vars /\ WF_vars(NextRetry)

(* ------------------------------------------------- failures and notices *)
\* a GET /leads/ of the poll fails: useQuery has no onError and the page reads
\* neither error nor isError, so the data is kept and nothing is shown
LeadsQueryFails ==
  /\ failures < MaxFailures
  /\ failures' = failures + 1
  /\ UNCHANGED << backendVars, pageVars, inflight, timers, budgetVars, trail,
                  errorToasts, scenario, settingsVars, layoutVars, leadsStale,
                  dashboardVars >>

\* the step runs the onError of a mutation: its request failed
onError ==
  \E r \in inflight : Settled(r) /\ ~r.ok /\ r \notin inflight'

\* every onError of the page calls toast.error with the error's message
WorkflowWithToasts ==
  /\ MenuStep \/ BackendStep \/ AgentStep
  /\ onError => failures < MaxFailures
  /\ failures' = IF onError THEN failures + 1 ELSE failures
  /\ errorToasts' = IF onError THEN errorToasts + 1 ELSE errorToasts
  /\ UNCHANGED << trail, scenario, settingsVars, layoutVars, leadsStale,
                  dashboardVars >>

\* one dashboard whose requests can fail
NextErrors ==
  \/ WorkflowWithToasts
  \/ LeadsQueryFails

SpecErrors == Init /\ [][NextErrors]_vars

(* ---------------------------------------------------------------- claims *)
\* the ten states of the lifecycle
LeadStatus ==
  { "pending", "calling", "confirmed", "call_failed", "not_interested",
    "no_answer", "callback_requested", "entry_in_progress", "entered",
    "entry_failed" }

\* the request r leaves the backend in this step with a success response
Accepted(r) ==
  /\ r \in inflight
  /\ r \notin inflight'
  /\ \E cs \in BOOLEAN :
       [r EXCEPT !.phase = "done", !.call_successful = cs] \in inflight'

\* the backend finishes handling the guarded request r in this step
Committed(r) ==
  /\ r \in inflight
  /\ r.phase = "read"
  /\ r \notin inflight'

\* C1: in every reachable state, after agent outcomes, operator triggers and
\* manual overrides, every Lead's status is one of the ten defined states.
C1_StatusInEnumeration ==
  \A i \in DOMAIN dbLeads : dbLeads[i].status \in LeadStatus

\* a manual override was applied to a Lead that had been called
C1_Witness ==
  \E i \in DOMAIN dbLeads :
    /\ dbLeads[i].status = "not_interested"
    /\ Len(callLogs) > 0
    /\ \E r \in inflight : r.op = "status" /\ r.phase = "done" /\ r.ok

\* C2: every Lead created by import or manual add starts pending with
\* tcpa_opt_in false, whatever was submitted, and the add request carries the
\* eight form fields and no status.
C2_CreatedPending ==
  /\ [](\A r \in inflight :
          r.op = "add" =>
            /\ "status" \notin DOMAIN r.data
            /\ DOMAIN r.data = { "first_name", "last_name", "email", "phone",
                                 "address", "city", "state", "zip_code" })
  /\ [][\A i \in DOMAIN dbLeads' :
          i \notin DOMAIN dbLeads =>
            /\ dbLeads'[i].status = "pending"
            /\ dbLeads'[i].tcpa_opt_in = FALSE]_vars

\* a filled-in form was added to a store that also holds an imported Lead
C2_Witness ==
  /\ Len(dbLeads) = 2
  /\ \A i \in DOMAIN dbLeads : dbLeads[i].status = "pending"
  /\ \E r \in inflight :
       r.op = "add" /\ r.phase = "done" /\ r.ok /\ r.data.first_name = "x"
  /\ selectedFile = Null
  /\ ~uploadDialogOpen

\* C3: every transition of a Lead into calling appends exactly one CallLog
\* row, every transition into entry_in_progress exactly one DataEntryLog row,
\* with that Lead's lead_id, and the earlier rows stay as they were.
C3_OneRowPerTransition ==
  [][\A i \in DOMAIN dbLeads :
       /\ (dbLeads[i].status # "calling" /\ dbLeads'[i].status = "calling") =>
            /\ Len(callLogs') = Len(callLogs) + 1
            /\ SubSeq(callLogs', 1, Len(callLogs)) = callLogs
            /\ callLogs'[Len(callLogs')].lead_id = i
            /\ dataEntryLogs' = dataEntryLogs
       /\ (dbLeads[i].status # "entry_in_progress"
             /\ dbLeads'[i].status = "entry_in_progress") =>
            /\ Len(dataEntryLogs') = Len(dataEntryLogs) + 1
            /\ SubSeq(dataEntryLogs', 1, Len(dataEntryLogs)) = dataEntryLogs
            /\ dataEntryLogs'[Len(dataEntryLogs')].lead_id = i
            /\ callLogs' = callLogs]_vars

\* a Lead was called twice and is now in its data entry
C3_Witness ==
  \E i \in DOMAIN dbLeads :
    /\ dbLeads[i].status = "entry_in_progress"
    /\ Len(callLogs) = 2
    /\ Len(dataEntryLogs) >= 1

\* C4: once a Lead is entered or not_interested, only a step caused by an
\* operator changes its status: no agent step and no automatic mark-confirmed
\* of the page (effect, timer) does.
C4_TerminalKeptByAutomaticSteps ==
  [][\A i \in DOMAIN dbLeads :
       (dbLeads[i].status \in Terminal
          /\ dbLeads'[i].status # dbLeads[i].status) =>
         \E r \in inflight :
           /\ r.origin \in { "operator", "other" }
           /\ r \notin inflight']_vars

\* C5: of two retry-entry requests for one Lead that both found it
\* entry_failed, at most one performs the transition: the one handled after
\* the winner starts no new attempt and leaves the Lead as it is.
C5_OneRetryEntryWins ==
  [][\A r1, r2 \in inflight :
       ( /\ r1.op = "retry-entry" /\ r2.op = "retry-entry"
         /\ r1 # r2 /\ r1.id = r2.id
         /\ r1.phase = "done" /\ r1.ok /\ r1.seen = "entry_failed"
         /\ r2.seen = "entry_failed"
         /\ dbLeads[r2.id].status = "entry_in_progress"
         /\ Committed(r2) ) =>
         /\ dataEntryLogs' = dataEntryLogs
         /\ dbLeads' = dbLeads]_vars

\* C6: a Lead in entry_in_progress or entered has tcpa_opt_in = true.
C6_ConsentBeforeEntry ==
  \A i \in DOMAIN dbLeads :
    dbLeads[i].status \in { "entry_in_progress", "entered" } =>
      dbLeads[i].tcpa_opt_in

\* C7: a mark-confirmed request is accepted whatever the Lead's status, and
\* leaves the Lead confirmed in that one step, without a call being logged.
C7_MarkConfirmedFromAnyStatus ==
  [][\A r \in inflight :
       (r.op = "mark-confirmed" /\ Accepted(r)) =>
         /\ dbLeads'[r.id].status = "confirmed"
         /\ callLogs' = callLogs]_vars

\* the operator marked a pending Lead confirmed: no call was ever made
C7_Witness ==
  \E r \in inflight :
    /\ r.op = "mark-confirmed" /\ r.origin = "operator"
    /\ r.phase = "done" /\ r.ok
    /\ dbLeads[r.id].status = "confirmed"
    /\ callLogs = << >>
    /\ leads.loaded
    /\ leads.rows[r.id].status = "pending"

\* C8: a retry-call found on and applied to a non-terminal Lead moves it to
\* calling, and a retry-call applied to an entered or not_interested Lead
\* leaves its status unchanged.
C8_RetryCallSparesTerminal ==
  [][\A r \in inflight :
       (r.op = "retry-call" /\ Committed(r)) =>
         /\ (dbLeads[r.id].status \notin Terminal /\ r.seen \notin Terminal) =>
              dbLeads'[r.id].status = "calling"
         /\ dbLeads[r.id].status \in Terminal =>
              dbLeads'[r.id].status = dbLeads[r.id].status]_vars

\* C9: a retry-entry found on and applied to an entry_failed Lead moves it to
\* entry_in_progress, and a retry-entry applied to a Lead in any other state
\* leaves its status unchanged.
C9_RetryEntryOnlyFromEntryFailed ==
  [][\A r \in inflight :
       (r.op = "retry-entry" /\ Committed(r)) =>
         /\ (dbLeads[r.id].status = "entry_failed" /\ r.seen = "entry_failed") =>
              dbLeads'[r.id].status = "entry_in_progress"
         /\ dbLeads[r.id].status # "entry_failed" =>
              dbLeads'[r.id].status = dbLeads[r.id].status]_vars

\* C10: without manual override, a Lead becomes entered only in a step from
\* entry_in_progress, and only after it was confirmed and later in
\* entry_in_progress.
C10_EnteredAfterConfirmedThenEntry ==
  /\ [](\A i \in DOMAIN dbLeads :
          dbLeads[i].status = "entered" => trail[i] = 2)
  /\ [][\A i \in DOMAIN dbLeads :
          (dbLeads[i].status # "entered" /\ dbLeads'[i].status = "entered") =>
            dbLeads[i].status = "entry_in_progress"]_vars

\* a Lead was entered after a retried data entry
C10_Witness ==
  \E i \in DOMAIN dbLeads :
    /\ dbLeads[i].status = "entered"
    /\ trail[i] = 2
    /\ AttemptsOf(i) = 2

\* the page sends request r in this step (mutate() of one of its mutations)
Sent(r) ==
  /\ r \in inflight'
  /\ r.phase = "sent"
  /\ ~\E q \in inflight : SameCall(q, r) /\ q.k = r.k

\* the step is the operator's click that sends r: a menu item of the Lead's
\* row, the Update button of the status dialog, or a click in a second browser
ByOperator(r) ==
  \/ /\ r.origin = "operator"
     /\ \/ /\ actionMenuAnchor
           /\ ~actionMenuAnchor'
           /\ ~IsNull(selectedLead)
           /\ selectedLead.id = r.id
        \/ /\ statusUpdateDialogOpen
           /\ r.op = "status"
  \/ /\ r.origin = "other"
     /\ otherSent' = otherSent + 1

\* C11: every retry-call and retry-entry request, and every request that
\* repeats a trigger already under way for the same Lead, is sent in the step
\* of an operator's click; no poll, effect or timer sends one.
C11_TriggersOnlyByOperator ==
  [][\A r \in inflight' :
       ( /\ Sent(r)
         /\ \/ r.op \in { "retry-call", "retry-entry" }
            \/ \E q \in inflight : q.op = r.op /\ q.id = r.id ) =>
         ByOperator(r)]_vars

\* C12: handling the response of the leads poll changes no Lead and sends no
\* mutating request.
C12_PollIsSideEffectFree ==
  [][leads' # leads => (inflight' = inflight /\ dbLeads' = dbLeads)]_vars

\* C13: every failed request of the page has ended in an error notification:
\* as many toast.error notifications were shown as requests have failed.
C13_EveryFailureNotified ==
  errorToasts = failures

C16_LeadsNeverDeleted ==
  /\ [](\A r \in inflight : r.op \in PageOps)
  /\ [][DOMAIN dbLeads \subseteq DOMAIN dbLeads']_vars

\* a two-row file was imported into the store
C16_Witness ==
  /\ DOMAIN dbLeads = { 1, 2 }
  /\ \E r \in inflight :
       r.op = "import" /\ r.phase = "done" /\ r.ok /\ r.data.rows = 2

\* the Lead of the scenario is calling, with a CallLog row written for it
\* since the scenario began
BackInCalling ==
  /\ dbLeads[scenario.lead].status = "calling"
  /\ Len(callLogs) > scenario.calls

\* the Lead of the scenario is in entry_in_progress, with a new attempt
BackInEntry ==
  /\ dbLeads[scenario.lead].status = "entry_in_progress"
  /\ Len(dataEntryLogs) > scenario.entries

\* C17: from each non-terminal situation of a Lead, the operator's Retry Call
\* (menu, request, backend) brings the Lead back to calling, and from
\* entry_failed the operator's Retry Data Entry brings it back to
\* entry_in_progress, with no manual override.
C17_NonTerminalReenterable ==
  /\ (scenario.op = "call") => <>BackInCalling
  /\ (scenario.op = "entry") => <>BackInEntry

\* a Lead whose data entry had started is calling again
C17_Witness ==
  /\ scenario.op = "call"
  /\ scenario.entries = 1
  /\ scenario.calls = 1
  /\ BackInCalling
  /\ Len(callLogs) = 2
  /\ \E r \in inflight : r.op = "retry-call" /\ r.phase = "done" /\ r.ok

\* C18: an operator's mutation is one request: no response handler of the
\* page sends a further mutating request, at once or from a timer it arms.
C18_OneRequestPerMutation ==
  \A r \in inflight : r.origin # "timer"

\* C19: once a CallLog row's call has ended the row stays, its lead_id and
\* its ended mark do not change, and its recording reference, once filled
\* in, does not change either.
C19_EndedCallImmutable ==
  [][\A n \in DOMAIN callLogs :
       callLogs[n].ended =>
         /\ n \in DOMAIN callLogs'
         /\ callLogs'[n].lead_id = callLogs[n].lead_id
         /\ callLogs'[n].ended
         /\ callLogs[n].recording # "none" =>
              callLogs'[n].recording = callLogs[n].recording]_vars

\* the recording of a Lead's first call arrived after the Lead was called again
C19_Witness ==
  /\ Len(callLogs) = 2
  /\ callLogs[1].ended
  /\ callLogs[1].recording = "rec_b"
  /\ callLogs[2].recording = "none"
  /\ callLogs[1].lead_id = callLogs[2].lead_id

\* C20: an edit of the Days 3-5 field to v leaves day3, day4 and day5 all
\* equal to v and the other days as they were, so a save posts v for the three.
C20_Days3to5SetTogether ==
  [][\A value \in Inputs :
       EditDays3to5(value) =>
         LET v == OrZero(ParseInt(value))
         IN  callSettings' = [ callSettings EXCEPT !.day3 = v, !.day4 = v,
                                                   !.day5 = v ]]_vars

\* C21: every cap in the body of a save request is an integer from 0 to 10.
C21_PostedCapsInRange ==
  \A r \in settingsReqs :
    r.op = "post" => \A day \in Days : r.body[day] \in 0..10

\* C22: the toggle sends start only while the agents are stopped on the
\* backend and stop only while they are running, and never while another
\* start or stop is in flight.
C22_ToggleMatchesBackend ==
  /\ [](Cardinality(agentReqs) <= 1)
  /\ [][\A r \in agentReqs' \ agentReqs :
          r.phase = "sent" =>
            /\ agentReqs = {}
            /\ (r.op = "start") = ~agentsRunning]_vars

\* a mark-confirmed request the page sends on its own
Automatic(r) == r.op = "mark-confirmed" /\ r.origin \in { "effect", "timer" }

\* C23: an automatic mark-confirmed request is sent only while the Lead is
\* calling on the backend, and never while another automatic mark-confirmed
\* for the same Lead is still under way.
C23_OneAutoConfirmPerCall ==
  [][\A r \in inflight' :
       (Sent(r) /\ Automatic(r)) =>
         /\ dbLeads[r.id].status = "calling"
         /\ ~\E q \in inflight : Automatic(q) /\ q.id = r.id]_vars

\* C24: the page sends no make-call request for a Lead that is calling on
\* the backend.
C24_NoMakeCallWhileCalling ==
  [][\A r \in inflight' :
       (Sent(r) /\ r.op = "make-call" /\ FromPage(r)) =>
         dbLeads[r.id].status # "calling"]_vars

\* C25: while the action menu or the status dialog is open selectedLead is
\* not null, selectedLead only changes to the row just opened or to null, and
\* every request of the operator carries the id of selectedLead.
C25_SelectedLeadWhileOpen ==
  /\ []((actionMenuAnchor \/ statusUpdateDialogOpen) => ~IsNull(selectedLead))
  /\ [][selectedLead' # selectedLead =>
          \/ IsNull(selectedLead')
          \/ /\ actionMenuAnchor' /\ ~actionMenuAnchor
             /\ selectedLead'.id \in DOMAIN leads.rows
             /\ selectedLead' = RowRead(leads.rows[selectedLead'.id])]_vars
  /\ [][\A r \in inflight' :
          (Sent(r) /\ r.origin = "operator") =>
            /\ ~IsNull(selectedLead)
            /\ r.id = selectedLead.id]_vars

\* the operator sent Make Call for Lead 1, then opened Lead 2's menu and sent
\* a status update from the dialog
C25_Witness ==
  /\ menuOpens = 2
  /\ statusUpdateDialogOpen
  /\ ~IsNull(selectedLead)
  /\ selectedLead.id = 2
  /\ \E r \in inflight : r.op = "status" /\ r.id = 2 /\ r.origin = "operator"
  /\ \E q \in inflight : q.op = "make-call" /\ q.id = 1

\* C26: an import request is sent only with a file selected and carries that
\* file, at most one import is in flight, and the dialog opens with no file
\* selected, so a file of an earlier, cancelled session cannot be uploaded.
C26_ImportFileOfThisDialog ==
  /\ [](Cardinality({ r \in inflight : r.op = "import" }) <= 1)
  /\ [][\A r \in inflight' :
          (Sent(r) /\ r.op = "import") =>
            /\ uploadDialogOpen
            /\ ~IsNull(selectedFile)
            /\ r.data = selectedFile]_vars
  /\ [][(uploadDialogOpen' /\ ~uploadDialogOpen) => IsNull(selectedFile')]_vars

\* the step runs the response handler of request r
Handled(r) == r \in inflight /\ Settled(r) /\ r \notin inflight'

\* C27: the handler of a failed import or add request leaves the dialogs, the
\* selected file and the form as they were; the handler of a successful one
\* closes its dialog and resets selectedFile to null / newLead to empty fields.
C27_FailureKeepsDialog ==
  [][\A r \in inflight :
       (Handled(r) /\ r.op \in { "import", "add" }) =>
         /\ ~r.ok => UNCHANGED << uploadDialogOpen, selectedFile, addDialogOpen,
                                  newLead >>
         /\ (r.ok /\ r.op = "import") =>
              /\ ~uploadDialogOpen'
              /\ IsNull(selectedFile')
              /\ UNCHANGED << addDialogOpen, newLead >>
         /\ (r.ok /\ r.op = "add") =>
              /\ ~addDialogOpen'
              /\ newLead' = EmptyLead
              /\ UNCHANGED << uploadDialogOpen, selectedFile >>]_vars

\* an import has succeeded and been handled; the response of a failed add is
\* about to be handled with the dialog open and the form filled in
C27_Witness ==
  /\ Len(dbLeads) = 2
  /\ IsNull(selectedFile)
  /\ ~uploadDialogOpen
  /\ addDialogOpen
  /\ newLead # EmptyLead
  /\ \A r \in inflight : r.op = "add" /\ Settled(r) /\ ~r.ok
  /\ inflight # {}

\* C28: the handler of every successful mutation invalidates the leads query,
\* and from some point on the page displays the backend's Leads.
C28_DisplayCatchesUp ==
  /\ [][invalidateQueries => leadsStale']_vars
  /\ <>[](leads = LeadsResponse)

\* a mark-confirmed succeeded, its handler invalidated the query, and the
\* refetch brought the confirmed status to the page
C28_Witness ==
  /\ dbLeads[1].status = "confirmed"
  /\ leads = LeadsResponse
  /\ ~leadsStale
  /\ inflight = {}
  /\ menuOpens = 1

\* the number lies between 0 and 100
InPercentRange(v) == v.den > 0 /\ 0 <= v.num /\ v.num <= 100 * v.den

\* C29: for a statistics record of counted Leads each of the four progress
\* values lies between 0 and 100, and is 0 when its denominator is 0.
C29_ProgressInRange ==
  /\ \A bar \in DOMAIN progress : InPercentRange(progress[bar])
  /\ dashboardStats.total_leads = 0 =>
       progress.pendingToCalling.num = 0 /\ progress.activeProcessing.num = 0
  /\ dashboardStats.confirmed_leads = 0 => progress.confirmedToEntry.num = 0

\* C30: loading is true exactly while a settings request is in flight, at most
\* one settings request is in flight, and a response of the on-mount GET
\* changes no cap that the operator has edited.
C30_LoadingWhileInFlight ==
  /\ [](loading = (settingsReqs # {}))
  /\ [](Cardinality(settingsReqs) <= 1)
  /\ [][\A r \in settingsReqs :
          (r.op = "get" /\ r \notin settingsReqs' /\ settingEdits > 0) =>
            callSettings' = callSettings]_vars

====
